---- MODULE Spec2Model ----
(***************************************************************************)
(* Model of main.py, the Eurostat "hours worked" dashboard: the data       *)
(* acquisition with offline fallback, the country resolver, the wide to    *)
(* long pivot, the binning of the map view, the click extraction and the   *)
(* refresh cycle of main().                                                *)
(*                                                                         *)
(* Values.  A pandas cell is a sequence of length <= 1: << >> is NaN/None  *)
(* and <<x>> is the value x.  Hours are integers in tenths of an hour      *)
(* (358 is 35.8).  A data frame is [columns, rows]: the column labels in   *)
(* order, and each row the cells in column order.  A Python value of the   *)
(* click payload is a record tagged by its type t.                         *)
(*                                                                         *)
(* Spec is the refresh cycle over a session; SpecBin classifies one hours  *)
(* cell; SpecResolver looks one code up in both directions.                *)
(***************************************************************************)
EXTENDS Integers, Sequences, FiniteSets, TLC

\* ------------------------------------------------------------ bounds
\* Largest number of rows of a table the remote provider or the snapshot yields.
MaxRows == 2
\* Largest hours value (in tenths) fed to the binning.
MaxTenths == 650

\* ------------------------------------------------------- generic helpers
NaN == << >>
Some(x) == <<x>>
IsNa(c) == Len(c) = 0

Range(s) == { s[i] : i \in 1..Len(s) }

\* Index of the column labelled name, 0 when the frame has none.
ColIndex(df, name) ==
    IF \E i \in 1..Len(df.columns) : df.columns[i] = name
    THEN CHOOSE i \in 1..Len(df.columns) :
            /\ df.columns[i] = name
            /\ \A j \in 1..(i - 1) : df.columns[j] # name
    ELSE 0

HasCol(df, name) == ColIndex(df, name) # 0

\* df[name] of a row.
Cell(df, row, name) == row[ColIndex(df, name)]

\* Series.map(dict): the dict's value, NaN for a key the dict lacks (or NaN).
MapDict(cell, dict) ==
    IF IsNa(cell) THEN NaN
    ELSE IF cell[1] \in DOMAIN dict THEN Some(dict[cell[1]]) ELSE NaN

\* df[name] = values: replaces the column, or appends it when it is new.
SetColumn(df, name, values) ==
    IF HasCol(df, name)
    THEN [columns |-> df.columns,
          rows |-> [i \in 1..Len(df.rows) |->
                      [df.rows[i] EXCEPT ![ColIndex(df, name)] = values[i]]]]
    ELSE [columns |-> Append(df.columns, name),
          rows |-> [i \in 1..Len(df.rows) |-> Append(df.rows[i], values[i])]]

\* The positions of the columns of df that are not in names, in order.
RECURSIVE KeptCols(_, _, _)
KeptCols(df, names, i) ==
    IF i > Len(df.columns) THEN << >>
    ELSE IF df.columns[i] \in names THEN KeptCols(df, names, i + 1)
         ELSE <<i>> \o KeptCols(df, names, i + 1)

\* The frame restricted to the columns at positions idx.
Project(df, idx) ==
    [columns |-> [k \in 1..Len(idx) |-> df.columns[idx[k]]],
     rows |-> [i \in 1..Len(df.rows) |->
                 [k \in 1..Len(idx) |-> df.rows[i][idx[k]]]]]

\* ------------------------------------------------ Country Code Resolver
\* The dict literal, as its items in insertion order.
code_to_country ==
    << <<"BE", "Belgium">>, <<"BG", "Bulgaria">>, <<"CZ", "Czechia">>,
       <<"DK", "Denmark">>, <<"DE", "Germany">>, <<"EE", "Estonia">>,
       <<"IE", "Ireland">>, <<"GR", "Greece">>, <<"ES", "Spain">>,
       <<"FR", "France">>, <<"HR", "Croatia">>, <<"IT", "Italy">>,
       <<"CY", "Cyprus">>, <<"LV", "Latvia">>, <<"LT", "Lithuania">>,
       <<"LU", "Luxembourg">>, <<"HU", "Hungary">>, <<"MT", "Malta">>,
       <<"NL", "Netherlands">>, <<"AT", "Austria">>, <<"PL", "Poland">>,
       <<"PT", "Portugal">>, <<"RO", "Romania">>, <<"SI", "Slovenia">>,
       <<"SK", "Slovakia">>, <<"FI", "Finland">>, <<"SE", "Sweden">>,
       <<"IS", "Iceland">>, <<"NO", "Norway">>, <<"CH", "Switzerland">>,
       <<"GB", "United Kingdom">>, <<"BA", "Bosnia and Herzegovina">>,
       <<"ME", "Montenegro">>, <<"MK", "North Macedonia">>, <<"RS", "Serbia">>,
       <<"TR", "Türkiye">> >>

\* d[k] = v on a dict held as a function: a key already there is overwritten.
DictSet(d, k, v) ==
    [x \in (DOMAIN d) \cup {k} |-> IF x = k THEN v ELSE d[x]]

EmptyDict == [x \in {} |-> ""]

RECURSIVE DictOfItems(_, _)
\* The dict holding the first n items (a later item overwrites an earlier key).
DictOfItems(items, n) ==
    IF n = 0 THEN EmptyDict
    ELSE DictSet(DictOfItems(items, n - 1), items[n][1], items[n][2])

\* code_to_country as the dict the literal builds.
CodeDict == DictOfItems(code_to_country, Len(code_to_country))

RECURSIVE ReverseItems(_, _)
\* new_dict after the first n iterations of "for k, v in items: new_dict[v] = k".
ReverseItems(items, n) ==
    IF n = 0 THEN EmptyDict
    ELSE DictSet(ReverseItems(items, n - 1), items[n][2], items[n][1])

\* Variant of new_dict: the loop stores new_dict[k] = v, so nothing is reversed.
new_dict_not_reversed == DictOfItems(code_to_country, Len(code_to_country))

\* new_dict of rename_countries(data_local=True).
new_dict == ReverseItems(code_to_country, Len(code_to_country))

\* rename_countries: the frame returned.  Its remote branch raises KeyError
\* when the frame has no ISO2 column (RenameRaises).
RenameRaises(df, data_local) ==
    IF data_local THEN ~HasCol(df, "country") ELSE ~HasCol(df, "ISO2")

\* Variant of rename_countries: the remote branch without its dropna.
rename_countries_no_dropna(df, data_local) ==
    IF ~data_local
    THEN SetColumn(df, "country",
             [i \in 1..Len(df.rows) |->
                 MapDict(Cell(df, df.rows[i], "ISO2"), CodeDict)])
    ELSE SetColumn(df, "ISO2",
             [i \in 1..Len(df.rows) |->
                 MapDict(Cell(df, df.rows[i], "country"), new_dict)])

rename_countries(df, data_local) ==
    IF ~data_local
    THEN LET named == SetColumn(df, "country",
                        [i \in 1..Len(df.rows) |->
                            MapDict(Cell(df, df.rows[i], "ISO2"), CodeDict)])
         IN [columns |-> named.columns,
             rows |-> SelectSeq(named.rows,
                          LAMBDA r : ~IsNa(Cell(named, r, "country")))]
    ELSE SetColumn(df, "ISO2",
             [i \in 1..Len(df.rows) |->
                 MapDict(Cell(df, df.rows[i], "country"), new_dict)])

\* --------------------------------------------------------- acquisition
\* The columns download_data drops, and the column it renames to ISO2.
DroppedCols == <<"freq", "isco08", "wstatus", "worktime", "age", "unit", "sex">>
GeoCol == "geo\\TIME_PERIOD"

\* DataFrame.rename(columns={old: new}): a frame without the column is left as is.
RenameCol(df, old, new) ==
    [columns |-> [i \in 1..Len(df.columns) |->
                    IF df.columns[i] = old THEN new ELSE df.columns[i]],
     rows |-> df.rows]

\* What get_data_df hands back: it raised, it returned None, or a frame.
\* download_data of that: exc (an exception leaves it), error (st.error was
\* called), df (the frame returned when none was raised).
download_data(got) ==
    IF got.kind = "raise"
    THEN [exc |-> TRUE, error |-> FALSE, df |-> NaN]
    ELSE IF got.kind = "none"
    THEN [exc |-> TRUE, error |-> TRUE, df |-> NaN]
    ELSE IF \E i \in 1..Len(DroppedCols) : ~HasCol(got.df, DroppedCols[i])
    THEN [exc |-> TRUE, error |-> FALSE, df |-> NaN]
    ELSE [exc |-> FALSE, error |-> FALSE,
          df |-> RenameCol(Project(got.df, KeptCols(got.df, Range(DroppedCols), 1)),
                           GeoCol, "ISO2")]

\* The column names read_data assigns to the sheet.
LocalCols == <<"country", "2015", "2016", "2017", "2018", "2019",
               "2020", "2021", "2022", "2023", "2024">>

\* What read_excel hands back: it raised, or the sheet's rows (header=None, so
\* the columns are unnamed).  read_data of that: assigning the 11 names raises
\* when the sheet is not 11 columns wide.
read_data(sheet) ==
    IF sheet.kind = "raise" THEN [exc |-> TRUE, df |-> NaN]
    ELSE IF sheet.width # Len(LocalCols) THEN [exc |-> TRUE, df |-> NaN]
    ELSE [exc |-> FALSE, df |-> [columns |-> LocalCols, rows |-> sheet.rows]]

\* ----------------------------------------------------------- Normalizer
Digits == {"0", "1", "2", "3", "4", "5", "6", "7", "8", "9"}
Ch(s, i) == SubSeq(s, i, i)

DigitVal(c) ==
    CASE c = "0" -> 0 [] c = "1" -> 1 [] c = "2" -> 2 [] c = "3" -> 3
      [] c = "4" -> 4 [] c = "5" -> 5 [] c = "6" -> 6 [] c = "7" -> 7
      [] c = "8" -> 8 [] c = "9" -> 9

RECURSIVE Strip(_)
\* str.strip() for blanks.
Strip(s) ==
    IF Len(s) > 0 /\ Ch(s, 1) = " " THEN Strip(SubSeq(s, 2, Len(s)))
    ELSE IF Len(s) > 0 /\ Ch(s, Len(s)) = " " THEN Strip(SubSeq(s, 1, Len(s) - 1))
    ELSE s

\* The text of an integer literal without its sign.
Unsigned(s) ==
    LET t == Strip(s)
    IN IF Len(t) > 0 /\ Ch(t, 1) \in {"+", "-"} THEN SubSeq(t, 2, Len(t)) ELSE t

\* Whether int(s) succeeds: blanks around, a sign, then digits, with single
\* underscores allowed between digits.
IsIntLiteral(s) ==
    LET b == Unsigned(s)
    IN /\ Len(b) > 0
       /\ \A i \in 1..Len(b) : Ch(b, i) \in Digits \cup {"_"}
       /\ Ch(b, 1) \in Digits
       /\ Ch(b, Len(b)) \in Digits
       /\ \A i \in 1..(Len(b) - 1) : ~(Ch(b, i) = "_" /\ Ch(b, i + 1) = "_")

RECURSIVE DigitsValue(_, _)
\* The number the first n characters of b spell, underscores skipped.
DigitsValue(b, n) ==
    IF n = 0 THEN 0
    ELSE IF Ch(b, n) = "_" THEN DigitsValue(b, n - 1)
    ELSE 10 * DigitsValue(b, n - 1) + DigitVal(Ch(b, n))

\* int(s) for an s that IsIntLiteral.
ParseInt(s) ==
    LET t == Strip(s)
        b == Unsigned(s)
        v == DigitsValue(b, Len(b))
    IN IF Ch(t, 1) = "-" THEN 0 - v ELSE v

\* pd.melt(df, id_vars=['country', 'ISO2'], var_name='year', value_name='hours'):
\* the positions of the value columns, and the molten rows (the year still the
\* column label), one block of rows per value column.
ValueCols(df) == KeptCols(df, {"country", "ISO2"}, 1)

\* Variant of Melt: every molten row takes its hours from the first value column.
Melt_first_value_column(df) ==
    LET vc == ValueCols(df)
        n == Len(df.rows)
        country == ColIndex(df, "country")
        iso == ColIndex(df, "ISO2")
    IN [k \in 1..(Len(vc) * n) |->
          LET c == vc[((k - 1) \div n) + 1]
              r == df.rows[((k - 1) % n) + 1]
          IN [country |-> r[country],
              ISO2 |-> r[iso],
              year |-> df.columns[c],
              hours |-> r[vc[1]]]]

Melt(df) ==
    LET vc == ValueCols(df)
        n == Len(df.rows)
        country == ColIndex(df, "country")
        iso == ColIndex(df, "ISO2")
    IN [k \in 1..(Len(vc) * n) |->
          LET c == vc[((k - 1) \div n) + 1]
              r == df.rows[((k - 1) % n) + 1]
          IN [country |-> r[country],
              ISO2 |-> r[iso],
              year |-> df.columns[c],
              hours |-> r[c]]]

\* Variant of pivot_data: the coercion drops the rows whose year is no integer
\* literal instead of raising (pd.to_numeric(errors='coerce') and dropna).
pivot_data_coerce(df) ==
    IF ~HasCol(df, "country") \/ ~HasCol(df, "ISO2")
    THEN [exc |-> TRUE, long |-> << >>]
    ELSE LET m == SelectSeq(Melt(df), LAMBDA r : IsIntLiteral(r.year))
         IN [exc |-> FALSE,
             long |-> [k \in 1..Len(m) |->
                         [m[k] EXCEPT !.year = ParseInt(m[k].year)]]]

\* pivot_data: exc when it raises, which is when melt finds no id column
\* (KeyError) or astype(int) meets a year cell that is no integer literal
\* (ValueError); else long, the Long Table with year coerced to an integer.
pivot_data(df) ==
    IF ~HasCol(df, "country") \/ ~HasCol(df, "ISO2")
    THEN [exc |-> TRUE, long |-> << >>]
    ELSE LET m == Melt(df)
         IN IF \E k \in 1..Len(m) : ~IsIntLiteral(m[k].year)
            THEN [exc |-> TRUE, long |-> << >>]
            ELSE [exc |-> FALSE,
                  long |-> [k \in 1..Len(m) |->
                              [m[k] EXCEPT !.year = ParseInt(m[k].year)]]]

\* ------------------------------------------------------------- map bins
bins == <<10, 20, 30, 35, 40, 45, 60>>
labels == <<"10-20", "21-30", "31-35", "36-40", "41-45", "46-60">>

\* Whole hours as tenths of an hour, the unit of an hours cell.
Tenths(x) == x * 10

\* Variant of SearchSortedLeft: side='right', the bins left-closed.
SearchSortedRight(x) == Cardinality({i \in 1..Len(bins) : Tenths(bins[i]) <= x})

\* bins.searchsorted(x, side='left'): how many edges are below x.
SearchSortedLeft(x) == Cardinality({i \in 1..Len(bins) : Tenths(bins[i]) < x})

\* pd.cut(hours, bins, labels, include_lowest=True, right=True) of one cell:
\* the label, NaN for a null cell or a value outside the edges.
Cut(h) ==
    IF IsNa(h) THEN NaN
    ELSE LET id == IF h[1] = Tenths(bins[1]) THEN 1 ELSE SearchSortedLeft(h[1])
         IN IF id = 0 \/ id = Len(bins) THEN NaN ELSE Some(labels[id])

\* hours_bin_display: isValid(datum.hours_bin) ? datum.hours_bin : 'No data'.
hours_bin_display(h) == IF IsNa(Cut(h)) THEN "No data" ELSE Cut(h)[1]

\* ------------------------------------------------------ click payload
\* A Python value: t is its type, s the text of a str, l the items of a list,
\* d the (key, value) items of a dict.
PyNone == [t |-> "None", s |-> "", l |-> << >>, d |-> << >>]
PyStr(x) == [t |-> "str", s |-> x, l |-> << >>, d |-> << >>]
PyList(x) == [t |-> "list", s |-> "", l |-> x, d |-> << >>]
PyDict(x) == [t |-> "dict", s |-> "", l |-> << >>, d |-> x]

\* bool(x) of a Python value.
Truthy(x) ==
    CASE x.t = "None" -> FALSE
      [] x.t = "str" -> x.s # ""
      [] x.t = "list" -> Len(x.l) > 0
      [] x.t = "dict" -> Len(x.d) > 0

\* k in d, d.get(k, default) and d.get(k) of a dict.
HasKey(x, k) == \E i \in 1..Len(x.d) : x.d[i][1] = k
GetOr(x, k, default) ==
    IF HasKey(x, k)
    THEN x.d[CHOOSE i \in 1..Len(x.d) : x.d[i][1] = k][2]
    ELSE default
Get(x, k) == GetOr(x, k, PyNone)

\* extract_selected_country(event, "country_click").
extract_selected_country(event, selection_name) ==
    LET ev == IF Truthy(event) THEN event ELSE PyDict(<< >>)
        sel == Get(GetOr(ev, "selection", PyDict(<< >>)), selection_name)
    IN IF sel.t = "list" /\ Truthy(sel)
       THEN Get(sel.l[1], "country")
       ELSE IF sel.t = "dict"
       THEN IF HasKey(sel, "country")
            THEN LET v == Get(sel, "country")
                 IN IF v.t = "list" /\ Truthy(v) THEN v.l[1] ELSE v
            ELSE IF HasKey(sel, "values") /\ Truthy(Get(sel, "values"))
            THEN Get(Get(sel, "values").l[1], "country")
            ELSE PyNone
       ELSE PyNone

\* clicked_country or "France".
CountryToShow(clicked) == IF Truthy(clicked) THEN clicked ELSE PyStr("France")

\* ------------------------------------------------------------ the views
RECURSIVE SortSet(_)
\* sorted(S) of a finite set of integers.
SortSet(S) ==
    IF S = {} THEN << >>
    ELSE LET m == CHOOSE x \in S : \A y \in S : x <= y
         IN <<m>> \o SortSet(S \ {m})

\* years = sorted(df_long["year"].unique()).
YearsOf(long) == SortSet({ long[k].year : k \in 1..Len(long) })

\* st.selectbox("Year", years, index=len(years)-1, key='year'): nothing for an
\* empty list; the value the session holds for the key when it is one of the
\* options; else the option at index.
selectbox(options, index, widget) ==
    IF Len(options) = 0 THEN NaN
    ELSE IF ~IsNa(widget) /\ widget[1] \in Range(options) THEN widget
    ELSE Some(options[index + 1])

\* year_selected = st.selectbox(...) or 2024: None and 0 are falsy.
YearSelected(long, widget) ==
    LET years == YearsOf(long)
        picked == selectbox(years, Len(years) - 1, widget)
    IN IF IsNa(picked) \/ picked[1] = 0 THEN 2024 ELSE picked[1]

\* source_data of plot_map_value, with its hours_bin_display.
MapRows(long, year) ==
    LET src == SelectSeq(long, LAMBDA r : r.year = year)
    IN [k \in 1..Len(src) |->
          [ISO2 |-> src[k].ISO2, country |-> src[k].country,
           hours |-> src[k].hours, class |-> hours_bin_display(src[k].hours)]]

\* --------------------------------------------------------------- inputs
\* All sequences of distinct elements of S of length at most n.
RECURSIVE SeqsUpTo(_, _)
SeqsUpTo(S, n) ==
    IF n = 0 THEN { << >> }
    ELSE LET shorter == SeqsUpTo(S, n - 1)
         IN shorter \cup UNION { { Append(q, x) : x \in S \ Range(q) } : q \in shorter }

\* S's sequences of at most MaxRows distinct rows, and one that repeats a row.
Bodies(S) ==
    SeqsUpTo(S, MaxRows) \cup { <<r, r>> : r \in { CHOOSE x \in S : TRUE } }

\* Rows the provider may return: the geographic code and the hours of up to two
\* periods.  EU27_2020 is an aggregate the resolver table does not know.
RemoteRowPool ==
    { [geo |-> Some("FR"), cells |-> <<Some(361), Some(358)>>],
      [geo |-> Some("ES"), cells |-> <<Some(372), NaN>>],
      [geo |-> Some("EU27_2020"), cells |-> <<Some(370), Some(90)>>] }

\* A frame of get_data_df: the dimension columns dims, the geographic column
\* named geoName, one column per period, and the rows of body.
RemoteFrame(dims, geoName, periods, body) ==
    [columns |-> dims \o <<geoName>> \o periods,
     rows |-> [i \in 1..Len(body) |->
                 [j \in 1..Len(dims) |-> Some("A")] \o <<body[i].geo>>
                    \o SubSeq(body[i].cells, 1, Len(periods))]]

StdDims == <<"freq", "unit", "sex", "age", "wstatus", "worktime", "isco08">>
StdPeriods == <<"2023", "2024">>

\* Frames whose schema differs from the one download_data expects, or whose
\* period labels are unusual: a dimension missing, one added, the geographic
\* column renamed, periods out of order, period 0, a label that is no integer.
OddSchemas ==
    { [dims |-> <<"freq", "unit", "age", "wstatus", "worktime", "isco08">>,
       geo |-> GeoCol, periods |-> StdPeriods],
      [dims |-> Append(StdDims, "obs_flag"), geo |-> GeoCol, periods |-> StdPeriods],
      [dims |-> StdDims, geo |-> "geo", periods |-> StdPeriods],
      [dims |-> StdDims, geo |-> GeoCol, periods |-> <<"2024", "2023">>],
      [dims |-> StdDims, geo |-> GeoCol, periods |-> <<"0">>],
      [dims |-> StdDims, geo |-> GeoCol, periods |-> <<"2023", "2024-Q1">>] }

OddBodies == { << >>, <<[geo |-> Some("FR"), cells |-> <<Some(361), Some(358)>>]>> }

\* What one call of get_data_df('tps00071') may do.
RemoteOutcomes ==
    { [kind |-> "raise"], [kind |-> "none"] }
    \cup { [kind |-> "frame", df |-> RemoteFrame(StdDims, GeoCol, StdPeriods, b)] :
             b \in Bodies(RemoteRowPool) }
    \cup { [kind |-> "frame", df |-> RemoteFrame(o.dims, o.geo, o.periods, b)] :
             o \in OddSchemas, b \in OddBodies }

\* Rows of the snapshot sheet: the display name and the hours of 2015..2024
\* (":" read as NaN).  "Euro area" is a name the resolver table does not know.
LocalRowPool ==
    { <<Some("France"), Some(372), Some(372), Some(371), Some(371), Some(370),
        Some(369), Some(368), Some(365), Some(361), Some(358)>>,
      <<Some("Spain"), Some(380), Some(379), Some(378), Some(377), Some(376),
        NaN, Some(374), Some(373), Some(372), Some(371)>>,
      <<Some("Euro area"), Some(366), Some(365), Some(365), Some(364), Some(364),
        Some(358), Some(362), Some(362), Some(361), Some(360)>> }

\* What read_excel may do: raise (no file, no sheet), or hand back the rows of
\* a sheet 11 columns wide, of one with no data rows (a frame without
\* columns), or of one that lost its last column.
LocalOutcomes ==
    { [kind |-> "raise"], [kind |-> "sheet", width |-> 0, rows |-> << >>] }
    \cup { [kind |-> "sheet", width |-> 11, rows |-> b] :
             b \in Bodies(LocalRowPool) \ { << >> } }
    \cup { [kind |-> "sheet", width |-> 10,
            rows |-> <<<<Some("France"), Some(372), Some(372), Some(371), Some(371),
                         Some(370), Some(369), Some(368), Some(365), Some(361)>>>>] }

\* The selection state st.altair_chart hands back for key 'eu_map'.
Selection(sel) ==
    PyDict(<< <<"selection", PyDict(<< <<"country_click", sel>> >>)>> >>)
Record(k, x) == PyDict(<< <<k, x>> >>)

EventPool ==
    { PyNone,
      PyDict(<< <<"selection", PyDict(<< >>)>> >>),
      Selection(PyList(<< >>)),
      Selection(PyList(<<Record("country", PyStr("Spain"))>>)),
      Selection(PyList(<<Record("ISO2", PyStr("ES"))>>)),
      Selection(Record("country", PyList(<<PyStr("Spain")>>))),
      Selection(Record("country", PyList(<< >>))),
      Selection(Record("country", PyStr("France"))),
      Selection(Record("values", PyList(<<Record("country", PyStr("Spain"))>>))) }

\* ---------------------------------------------------------------- state
VARIABLES
    pc,              \* where main() is: acquire, local, normalize, col1, col2, done, crashed
                     \* (bin, binned in SpecBin; resolve, named, coded in SpecResolver)
    cache,           \* st.cache_data of download_data: the frame cached, or NaN
    year_widget,     \* the session's value for the selectbox key 'year', or NaN
    map_event,       \* the selection state of the chart with key 'eu_map'
    prev_country,    \* the country the history view showed in the cycle before
    remote,          \* what get_data_df did in this cycle ("notcalled"; "cached" with the frame)
    local,           \* what read_excel did in this cycle ("notread")
    used_fallback,   \* main's used_fallback
    df,              \* main's df (the Wide Table), or NaN
    df_long,         \* main's df_long, or NaN
    warning,         \* st.warning was shown in this cycle
    error,           \* st.error was shown in this cycle
    exception,       \* an exception left main() in this cycle
    year_selected,   \* main's year_selected, or NaN
    country_to_show, \* main's country_to_show, or PyNone
    charts,          \* the charts rendered in this cycle, in order
    hours, hours_bin,      \* binning: an hours cell, and its class
    code, name, back_code  \* resolver: a code, its name, the name's code

sessionVars == <<cache, year_widget, map_event, prev_country>>
cycleVars == <<remote, local, used_fallback, df, df_long, warning, error,
               exception, year_selected, country_to_show, charts>>
binVars == <<hours, hours_bin>>
resolverVars == <<code, name, back_code>>
vars == <<pc, sessionVars, cycleVars, binVars, resolverVars>>

\* -------------------------------------------------------- refresh cycle
\* The state main() starts a cycle in (lines 196-208).
CycleStart ==
    /\ pc' = "acquire"
    /\ remote' = [kind |-> "notcalled"]
    /\ local' = [kind |-> "notread"]
    /\ used_fallback' = FALSE
    /\ df' = NaN
    /\ df_long' = NaN
    /\ warning' = FALSE
    /\ error' = FALSE
    /\ exception' = FALSE
    /\ year_selected' = NaN
    /\ country_to_show' = PyNone
    /\ charts' = << >>

IdleBin == hours = NaN /\ hours_bin = ""
IdleResolver == code = "" /\ name = NaN /\ back_code = NaN

Init ==
    /\ pc = "acquire"
    /\ cache = NaN
    /\ year_widget = NaN
    /\ map_event = PyNone
    /\ prev_country = PyStr("France")
    /\ remote = [kind |-> "notcalled"]
    /\ local = [kind |-> "notread"]
    /\ used_fallback = FALSE
    /\ df = NaN
    /\ df_long = NaN
    /\ warning = FALSE
    /\ error = FALSE
    /\ exception = FALSE
    /\ year_selected = NaN
    /\ country_to_show = PyNone
    /\ charts = << >>
    /\ IdleBin
    /\ IdleResolver

\* What the call download_data() of line 211 ends as, given what the cycle
\* recorded in remote: the cached frame, or download_data run on what
\* get_data_df did.
Downloaded(r) ==
    IF r.kind = "cached" THEN [exc |-> FALSE, error |-> FALSE, df |-> r.df]
    ELSE download_data(r)

\* The try block (lines 210-212) once download_data has ended as d: on an
\* exception of download_data or of rename_countries control goes to the
\* except block, else df is the renamed frame.
TryEnds(d) ==
    /\ error' = d.error
    /\ IF d.exc \/ RenameRaises(d.df, FALSE)
       THEN /\ pc' = "local"
            /\ df' = df
       ELSE /\ pc' = "normalize"
            /\ df' = Some(rename_countries(d.df, FALSE))
    /\ UNCHANGED <<year_widget, map_event, prev_country, local, used_fallback,
                   df_long, warning, exception, year_selected, country_to_show,
                   charts, binVars, resolverVars>>

\* The try block with download_data answered from st.cache_data.
TryRemoteCached ==
    /\ pc = "acquire"
    /\ ~IsNa(cache)
    /\ remote' = [kind |-> "cached", df |-> cache[1]]
    /\ cache' = cache
    /\ TryEnds(Downloaded(remote'))

\* The try block with download_data run: get_data_df does got; a frame
\* returned is cached, an exception is not.
TryRemoteFetch ==
    /\ pc = "acquire"
    /\ IsNa(cache)
    /\ \E got \in RemoteOutcomes :
          /\ remote' = got
          /\ cache' = IF Downloaded(got).exc THEN cache ELSE Some(Downloaded(got).df)
          /\ TryEnds(Downloaded(got))

\* The except block (lines 213-216): read_excel does sheet.  An exception of
\* read_data leaves main().
ReadLocal ==
    /\ pc = "local"
    /\ used_fallback' = TRUE
    /\ \E sheet \in LocalOutcomes :
          LET r == read_data(sheet)
          IN /\ local' = sheet
             /\ IF r.exc
                THEN /\ exception' = TRUE
                     /\ pc' = "crashed"
                     /\ df' = df
                ELSE /\ exception' = exception
                     /\ pc' = "normalize"
                     /\ df' = Some(rename_countries(r.df, TRUE))
    /\ UNCHANGED <<sessionVars, remote, df_long, warning, error, year_selected,
                   country_to_show, charts, binVars, resolverVars>>

\* Variant of Banner: the warning is shown whatever the strategy.
BannerAlways(fallback) == TRUE

\* Lines 218-219: whether st.warning is called.
Banner(fallback) == fallback

\* Lines 218-221: the banner, then pivot_data, whose exception leaves main().
Normalize ==
    /\ pc = "normalize"
    /\ warning' = Banner(used_fallback)
    /\ LET p == pivot_data(df[1])
       IN IF p.exc
          THEN /\ exception' = TRUE
               /\ pc' = "crashed"
               /\ df_long' = df_long
          ELSE /\ exception' = exception
               /\ pc' = "col1"
               /\ df_long' = Some(p.long)
    /\ UNCHANGED <<sessionVars, remote, local, used_fallback, df, error,
                   year_selected, country_to_show, charts, binVars, resolverVars>>

\* Lines 223-226: the year selector and the ranked bar view.
Col1 ==
    /\ pc = "col1"
    /\ year_selected' = Some(YearSelected(df_long[1], year_widget))
    /\ charts' = Append(charts, [chart |-> "bar", year |-> year_selected'[1]])
    /\ pc' = "col2"
    /\ UNCHANGED <<sessionVars, remote, local, used_fallback, df, df_long,
                   warning, error, exception, country_to_show, binVars,
                   resolverVars>>

\* Lines 228-234: the map view, the click read back, the history view.
Col2 ==
    /\ pc = "col2"
    /\ country_to_show' =
          CountryToShow(extract_selected_country(map_event, "country_click"))
    /\ charts' = charts \o
          << [chart |-> "map", year |-> year_selected[1],
              rows |-> MapRows(df_long[1], year_selected[1])],
             [chart |-> "history", country |-> country_to_show'] >>
    /\ pc' = "done"
    /\ UNCHANGED <<sessionVars, remote, local, used_fallback, df, df_long,
                   warning, error, exception, year_selected, binVars,
                   resolverVars>>

\* The country the next cycle will call the previous one.
Remember == prev_country' = IF pc = "done" THEN country_to_show ELSE prev_country

\* The page is run again with the session as it is.
Rerun ==
    /\ pc \in {"done", "crashed"}
    /\ CycleStart
    /\ Remember
    /\ UNCHANGED <<cache, year_widget, map_event, binVars, resolverVars>>

\* The options of the selector the user is taken to pick from: the oldest and
\* the latest.
YearChoices(years) == IF Len(years) = 0 THEN {} ELSE {years[1], years[Len(years)]}

\* The user picks a year of the selector, which runs the page again.
SelectYear ==
    /\ pc = "done"
    /\ \E y \in YearChoices(YearsOf(df_long[1])) : year_widget' = Some(y)
    /\ CycleStart
    /\ Remember
    /\ UNCHANGED <<cache, map_event, binVars, resolverVars>>

\* The user clicks on the map, which changes the chart's selection state and
\* runs the page again (on_select='rerun').
MapSelect ==
    /\ pc = "done"
    /\ \E e \in EventPool : e # map_event /\ map_event' = e
    /\ CycleStart
    /\ Remember
    /\ UNCHANGED <<cache, year_widget, binVars, resolverVars>>

\* The ttl of download_data's cache has run out when line 211 calls it: the
\* entry is dropped, and the call runs the function.
CacheExpire ==
    /\ pc = "acquire"
    /\ ~IsNa(cache)
    /\ cache' = NaN
    /\ UNCHANGED <<pc, year_widget, map_event, prev_country, cycleVars, binVars,
                   resolverVars>>

Next ==
    \/ TryRemoteCached
    \/ TryRemoteFetch
    \/ ReadLocal
    \/ Normalize
    \/ Col1
    \/ Col2
    \/ Rerun
    \/ SelectYear
    \/ MapSelect
    \/ CacheExpire

Spec == Init /\ [][Next]_vars

\* --------------------------------------------- the binning, on its own
\* One hours cell, null or 0.0 .. MaxTenths/10, is classified as the map view
\* classifies the cells of source_data.
InitBin ==
    /\ pc = "bin"
    /\ hours \in {NaN} \cup { Some(v) : v \in 0..MaxTenths }
    /\ hours_bin = ""
    /\ cache = NaN
    /\ year_widget = NaN
    /\ map_event = PyNone
    /\ prev_country = PyStr("France")
    /\ remote = [kind |-> "notcalled"]
    /\ local = [kind |-> "notread"]
    /\ used_fallback = FALSE
    /\ df = NaN
    /\ df_long = NaN
    /\ warning = FALSE
    /\ error = FALSE
    /\ exception = FALSE
    /\ year_selected = NaN
    /\ country_to_show = PyNone
    /\ charts = << >>
    /\ IdleResolver

Classify ==
    /\ pc = "bin"
    /\ hours_bin' = hours_bin_display(hours)
    /\ pc' = "binned"
    /\ UNCHANGED <<hours, sessionVars, cycleVars, resolverVars>>

NextBin == Classify

SpecBin == InitBin /\ [][NextBin]_vars

\* --------------------------------------------- the resolver, on its own
\* The codes of the table, and two the table does not know.
KnownCodes == { code_to_country[i][1] : i \in 1..Len(code_to_country) }
CodePool == KnownCodes \cup {"EU27_2020", "XK"}

InitResolver ==
    /\ pc = "resolve"
    /\ code \in CodePool
    /\ name = NaN
    /\ back_code = NaN
    /\ cache = NaN
    /\ year_widget = NaN
    /\ map_event = PyNone
    /\ prev_country = PyStr("France")
    /\ remote = [kind |-> "notcalled"]
    /\ local = [kind |-> "notread"]
    /\ used_fallback = FALSE
    /\ df = NaN
    /\ df_long = NaN
    /\ warning = FALSE
    /\ error = FALSE
    /\ exception = FALSE
    /\ year_selected = NaN
    /\ country_to_show = PyNone
    /\ charts = << >>
    /\ IdleBin

\* df['ISO2'].map(code_to_country) of one cell (line 52).
CodeToName ==
    /\ pc = "resolve"
    /\ name' = MapDict(Some(code), CodeDict)
    /\ pc' = "named"
    /\ UNCHANGED <<code, back_code, sessionVars, cycleVars, binVars>>

\* df['country'].map(new_dict) of one cell (line 59).
NameToCode ==
    /\ pc = "named"
    /\ back_code' = MapDict(name, new_dict)
    /\ pc' = "coded"
    /\ UNCHANGED <<code, name, sessionVars, cycleVars, binVars>>

NextResolver == CodeToName \/ NameToCode

SpecResolver == InitResolver /\ [][NextResolver]_vars

\* =============================================================== claims

\* C2: binning is total and deterministic with edges [10,20,30,35,40,45,60],
\* right-closed and lowest-inclusive: 10 <= h <= 20 is "10-20", 20 < h <= 30
\* is "21-30", 30 < h <= 35 is "31-35", 35 < h <= 40 is "36-40", 40 < h <= 45
\* is "41-45", 45 < h <= 60 is "46-60", and h < 10, h > 60 or null is
\* "No data"; the class is one of these seven and nothing else.
C2_BinningTable ==
    pc = "binned" =>
        /\ hours_bin \in Range(labels) \cup {"No data"}
        /\ hours_bin =
              ( IF IsNa(hours) THEN "No data"
                ELSE LET h == hours[1]
                     IN CASE h < 100 -> "No data"
                          [] 100 <= h /\ h <= 200 -> "10-20"
                          [] 200 < h /\ h <= 300 -> "21-30"
                          [] 300 < h /\ h <= 350 -> "31-35"
                          [] 350 < h /\ h <= 400 -> "36-40"
                          [] 400 < h /\ h <= 450 -> "41-45"
                          [] 450 < h /\ h <= 600 -> "46-60"
                          [] h > 600 -> "No data" )

\* C2, its case: 35.8 hours has been classified, as "36-40".
C2_Witness == pc = "binned" /\ hours = Some(358) /\ hours_bin = "36-40"

\* C3: for every code of the code_to_country table, the code found for the
\* code's display name in the reversed mapping is the code itself.
C3_ResolverRoundTrip ==
    (pc = "coded" /\ code \in KnownCodes) =>
        /\ ~IsNa(name)
        /\ back_code = Some(code)

\* C3, its case: Greece has been looked up both ways.
C3_Witness ==
    pc = "coded" /\ code = "GR" /\ name = Some("Greece") /\ back_code = Some("GR")

\* ---- what the claims about a refresh cycle speak of
\* The try block of this cycle ended in an exception.
TryFailed ==
    /\ remote.kind # "notcalled"
    /\ IF Downloaded(remote).exc THEN TRUE
       ELSE RenameRaises(Downloaded(remote).df, FALSE)

\* The snapshot was read in this cycle, and it loaded.
LocalRead == local.kind # "notread"
LocalLoaded == LocalRead /\ ~read_data(local).exc

\* df is the Wide Table derived from the snapshot read in this cycle.
FromLocal ==
    /\ LocalLoaded
    /\ df = Some(rename_countries(read_data(local).df, TRUE))

\* pivot_data has been called in this cycle; it returned.
NormalizerCalled == pc \in {"col1", "col2", "done"} \/ (pc = "crashed" /\ ~IsNa(df))
PivotReturned == pc \in {"col1", "col2", "done"}
CycleEnded == pc \in {"done", "crashed"}

\* The three charts are on the page.
AllCharts ==
    /\ Len(charts) = 3
    /\ charts[1].chart = "bar"
    /\ charts[2].chart = "map"
    /\ charts[3].chart = "history"

\* The frame of the provider has the columns download_data expects: the seven
\* dimensions, the geographic column, and besides them integer periods.
SchemaExpected(f) ==
    /\ \A i \in 1..Len(DroppedCols) : HasCol(f, DroppedCols[i])
    /\ HasCol(f, GeoCol)
    /\ \A i \in 1..Len(f.columns) :
          \/ f.columns[i] \in Range(DroppedCols) \cup {GeoCol}
          \/ IsIntLiteral(f.columns[i])

\* The ways the remote strategy can fail, as the claim lists them.
RemoteFailure(r) ==
    \/ r.kind \in {"raise", "none"}
    \/ /\ r.kind = "frame"
       /\ (Len(r.df.rows) = 0 \/ ~SchemaExpected(r.df))

\* C1: for every way the remote strategy can fail (get_data_df raises, returns
\* None, an empty table, or a table of another schema), once acquisition is
\* over and unless the snapshot failed to load, used_fallback is true, df is
\* the Wide Table derived from the snapshot, and no exception left the cycle.
C1_RemoteFailureFallsBack ==
    ( /\ pc \in {"normalize", "col1", "col2", "done", "crashed"}
      /\ RemoteFailure(remote)
      /\ ~(LocalRead /\ read_data(local).exc) )
    => ( /\ used_fallback
         /\ FromLocal
         /\ ~exception )

\* C5: with no year selection made, the year of the ranked bar view and of the
\* map view is the largest year of the Long Table, whenever it has a year.
C5_DefaultYearIsMax ==
    ( /\ pc \in {"col2", "done"}
      /\ IsNa(year_widget)
      /\ Len(YearsOf(df_long[1])) > 0 )
    => LET latest == CHOOSE y \in Range(YearsOf(df_long[1])) :
                        \A z \in Range(YearsOf(df_long[1])) : z <= y
       IN /\ year_selected = Some(latest)
          /\ charts[1].year = latest
          /\ pc = "done" => charts[2].year = latest

\* C6: the snapshot is read only after the remote strategy has failed in the
\* same refresh, and the offline warning is shown if and only if the table
\* handed to pivot_data is the one derived from the snapshot.
C6_StrategiesExclusive ==
    /\ LocalRead => TryFailed
    /\ warning <=> (NormalizerCalled /\ FromLocal)

\* C6, its case: the provider raised and the cycle ended on snapshot data.
C6_Witness ==
    /\ pc = "done"
    /\ remote.kind = "raise"
    /\ FromLocal
    /\ warning
    /\ Len(df[1].rows) > 0

\* C7: a cycle ends in exactly one of: all charts, no banner, no error (remote
\* succeeded); all charts and only the warning banner (remote failed, local
\* succeeded); an error and no chart at all.
C7_ThreeOutcomes ==
    CycleEnded =>
        \/ AllCharts /\ ~used_fallback /\ ~warning /\ ~error /\ ~exception
        \/ AllCharts /\ used_fallback /\ warning /\ ~error /\ ~exception
        \/ charts = << >> /\ (error \/ exception)

\* C9: the history view shows the country the event payload carries, and with
\* a payload that carries none it keeps the country the cycle before showed
\* (France before any click).
C9_SelectionPersists ==
    pc = "done" =>
        LET clicked == extract_selected_country(map_event, "country_click")
        IN /\ charts[3].country = country_to_show
           /\ country_to_show = IF Truthy(clicked) THEN clicked ELSE prev_country

\* ---- what the claims about the tables speak of
\* The label of the value column at position c as the year it spells.
LabelYear(w, c) == ParseInt(w.columns[c])

\* The years the value column labels spell, by column position.
LabelYears(w) == [c \in Range(ValueCols(w)) |-> LabelYear(w, c)]

\* The country cells, by row.
Countries(w) ==
    LET ci == ColIndex(w, "country")
    IN [i \in 1..Len(w.rows) |-> w.rows[i][ci]]

\* One row per country, and one column per year.
WellFormedWide(w) ==
    /\ \A c \in Range(ValueCols(w)) : IsIntLiteral(w.columns[c])
    /\ Cardinality(Range(Countries(w))) = Len(w.rows)
    /\ Cardinality({ LabelYear(w, c) : c \in Range(ValueCols(w)) }) = Len(ValueCols(w))

\* C4: pivot_data of a Wide Table with one row per country and year columns Y
\* has |countries| x |Y| rows, exactly one for each (country, year), and that
\* row carries the country's identity columns and the wide cell, null or not.
C4_PivotOneRowPerPair ==
    (PivotReturned /\ WellFormedWide(df[1])) =>
        LET w == df[1]
            long == df_long[1]
            yr == LabelYears(w)
            country == Countries(w)
            iso == ColIndex(w, "ISO2")
        IN /\ Len(long) = Len(w.rows) * Len(ValueCols(w))
           /\ \A i \in 1..Len(w.rows) : \A c \in DOMAIN yr :
                 LET hits == { k \in 1..Len(long) :
                                 long[k].country = country[i] /\ long[k].year = yr[c] }
                 IN /\ Cardinality(hits) = 1
                    /\ \A k \in hits :
                          /\ long[k].ISO2 = w.rows[i][iso]
                          /\ long[k].hours = w.rows[i][c]

\* C4, its case: a table of two countries, one of them with a null cell, has
\* been pivoted.
C4_Witness ==
    /\ PivotReturned
    /\ WellFormedWide(df[1])
    /\ Len(df[1].rows) = 2
    /\ \E i \in 1..2 : \E c \in Range(ValueCols(df[1])) : IsNa(df[1].rows[i][c])
    /\ \E k \in 1..Len(df_long[1]) : IsNa(df_long[1][k].hours)

\* A value column of the Wide Table whose label is no integer.
BadLabel(w) == \E c \in Range(ValueCols(w)) : ~IsIntLiteral(w.columns[c])

\* pivot_data raised in this cycle.
PivotRaised == pc = "crashed" /\ ~IsNa(df) /\ exception /\ IsNa(df_long)

\* The Long Table has a row for every value column of the Wide Table.
EveryYearKept(w) ==
    /\ ~IsNa(df_long)
    /\ \A c \in Range(ValueCols(w)) :
          /\ IsIntLiteral(w.columns[c])
          /\ LabelYear(w, c) \in Range(YearsOf(df_long[1]))

\* What C8 says of one call of pivot_data.
LoudCoercion(w) ==
    /\ BadLabel(w) => PivotRaised
    /\ PivotRaised \/ EveryYearKept(w)

NameOfCode(c) ==
    code_to_country[CHOOSE i \in 1..Len(code_to_country) : code_to_country[i][1] = c][2]
KnownNames == { code_to_country[i][2] : i \in 1..Len(code_to_country) }
CodeOfName(n) ==
    code_to_country[CHOOSE i \in 1..Len(code_to_country) : code_to_country[i][2] = n][1]

\* C10: on the remote path rename_countries drops exactly the rows whose code
\* the table does not know and every row left has a country; on the local
\* path it drops no row and a row whose name the table does not know gets a
\* null ISO2; a cycle with such a row still ends with all charts and no
\* exception.
C10_UnmappedAsymmetry ==
    /\ (~used_fallback /\ ~IsNa(df)) =>
          LET src == Downloaded(remote).df
              kept == SelectSeq(src.rows,
                          LAMBDA r : /\ ~IsNa(Cell(src, r, "ISO2"))
                                     /\ Cell(src, r, "ISO2")[1] \in KnownCodes)
          IN /\ Len(df[1].rows) = Len(kept)
             /\ \A i \in 1..Len(kept) :
                   df[1].rows[i] =
                      Append(kept[i], Some(NameOfCode(Cell(src, kept[i], "ISO2")[1])))
             /\ \A i \in 1..Len(df[1].rows) :
                   ~IsNa(Cell(df[1], df[1].rows[i], "country"))
    /\ (used_fallback /\ ~IsNa(df)) =>
          /\ LocalLoaded
          /\ Len(df[1].rows) = Len(local.rows)
          /\ \A i \in 1..Len(local.rows) :
                df[1].rows[i] =
                   Append(local.rows[i],
                          IF local.rows[i][1][1] \in KnownNames
                          THEN Some(CodeOfName(local.rows[i][1][1]))
                          ELSE NaN)
          /\ ( /\ CycleEnded
                /\ \E i \in 1..Len(df[1].rows) :
                      IsNa(Cell(df[1], df[1].rows[i], "ISO2")) )
             => (pc = "done" /\ ~exception /\ AllCharts)

\* C10, its case: a cycle on snapshot data with a name the table does not
\* know has ended.
C10_Witness ==
    /\ pc = "done"
    /\ used_fallback
    /\ \E i \in 1..Len(df[1].rows) :
          /\ Cell(df[1], df[1].rows[i], "country") = Some("Euro area")
          /\ IsNa(Cell(df[1], df[1].rows[i], "ISO2"))

====
